---- MODULE Spec2Model ----
(***************************************************************************)
(* Version lifecycle of dashboard documents (spaceone.dashboard).           *)
(*                                                                         *)
(* The state is the document store: the collection of dashboard records    *)
(* and the collection of version snapshots.  Each service method of        *)
(* DashboardService is one action; a method is a sequence of store calls,  *)
(* each of which registers its compensation with the transaction, and a    *)
(* failure of any call runs the registered compensations in reverse.       *)
(***************************************************************************)
EXTENDS Integers, Sequences, FiniteSets, Bags, TLC

VARIABLES
    dashboards,   \* the dashboards collection: a set of record documents
    versions,     \* the dashboard_versions collection: a bag of snapshot documents
    issued,       \* the (dashboard_id, domain_id) keys handed out so far
    seen,         \* every (dashboard_id, domain_id, version) a record has shown
    nops,         \* number of requests committed so far
    inflight      \* per worker: the request it is serving or has last served

vars == <<dashboards, versions, issued, seen, nops, inflight>>

-----------------------------------------------------------------------------
(* Bounds of the model *)

MaxOps == 3

(* Small input sets *)

Users == {"u1", "u2"}
\* the users that create dashboards (user ids are only ever compared for equality)
Owners == {"u1"}
Viewers == {"PUBLIC", "PRIVATE"}
DashboardIds == {"d1"}
Domains == {"domA"}
Keys == DashboardIds \X Domains

\* lists are sequences, mappings are sets of <<key, value>> pairs
LayoutsValues == {<<>>, <<"w1">>}
DictValues == {{}, {<<"k", 1>>}}
SettingsValues == {{<<"a", 1>>}}

version_keys == {"layouts", "variables", "variables_schema"}

EmptyOf(key) == IF key = "layouts" THEN <<>> ELSE {}

ValuesOf(key) ==
    CASE key = "layouts" -> LayoutsValues
      [] key = "variables" -> DictValues
      [] key = "variables_schema" -> DictValues
      [] key = "settings" -> SettingsValues

OptionalKeys == {"layouts", "variables", "variables_schema", "settings"}

\* a request may carry each optional field or leave it out: <<present, value>>
Choices(key) == {<<FALSE, EmptyOf(key)>>} \cup {<<TRUE, x>> : x \in ValuesOf(key)}

ChoiceOf(key, cl, cv, cs, ct) ==
    CASE key = "layouts" -> cl
      [] key = "variables" -> cv
      [] key = "variables_schema" -> cs
      [] key = "settings" -> ct

\* the request body (a Python dict) holding the fields that are present
Body(cl, cv, cs, ct) ==
    [k \in {x \in OptionalKeys : ChoiceOf(x, cl, cv, cs, ct)[1]} |->
        ChoiceOf(k, cl, cv, cs, ct)[2]]

-----------------------------------------------------------------------------
(* Python dict access on a request body *)

Has(params, key) == key \in DOMAIN params

\* truth value of params.get(key): None, [] and {} are false
Truthy(params, key) == Has(params, key) /\ params[key] # EmptyOf(key)

With(params, key, value) ==
    [k \in DOMAIN params \cup {key} |-> IF k = key THEN value ELSE params[k]]

-----------------------------------------------------------------------------
(* The document store *)

Store(ds, vs) == [dashboards |-> ds, versions |-> vs]

KeyOf(doc) == <<doc.dashboard_id, doc.domain_id>>

\* Dashboard.version of a fresh record
InitialVersion == 0

\* the fields Dashboard.update() writes; every other key of the data is dropped
updatable_fields == {"name", "layouts", "variables", "settings", "variables_schema"}

\* dashboard_model.create(params)
NewDashboard(params) ==
    [dashboard_id |-> params.dashboard_id,
     domain_id |-> params.domain_id,
     user_id |-> params.user_id,
     viewers |-> params.viewers,
     name |-> params.name,
     version |-> InitialVersion,
     layouts |-> IF Has(params, "layouts") THEN params.layouts ELSE <<>>,
     variables |-> IF Has(params, "variables") THEN params.variables ELSE {},
     variables_schema |->
        IF Has(params, "variables_schema") THEN params.variables_schema ELSE {},
     settings |-> IF Has(params, "settings") THEN params.settings ELSE {}]

\* variant: every field of the data is written, the version counter included
UpdatedAnyField(doc, data) ==
    [f \in DOMAIN doc |-> IF Has(data, f) THEN data[f] ELSE doc[f]]

\* vo.update(data): the updatable fields of data overwrite the document's
Updated(doc, data) ==
    [f \in DOMAIN doc |->
        IF f \in updatable_fields /\ Has(data, f) THEN data[f] ELSE doc[f]]

\* vo.to_dict()
to_dict(doc) == doc

\* dashboard_mgr.get_domain_dashboard(dashboard_id, domain_id): the matching documents
get_domain_dashboard(store, dashboard_id, domain_id) ==
    {d \in store.dashboards : d.dashboard_id = dashboard_id /\ d.domain_id = domain_id}

\* version_mgr.get_version(dashboard_id, version, domain_id): the matching documents
get_version(store, dashboard_id, version, domain_id) ==
    {v \in BagToSet(store.versions) :
        v.dashboard_id = dashboard_id /\ v.version = version /\ v.domain_id = domain_id}

\* version_mgr.filter_versions(dashboard_id=...)
filter_versions(store, dashboard_id) ==
    {v \in BagToSet(store.versions) : v.dashboard_id = dashboard_id}

\* the snapshot create_version_by_domain_dashboard_vo builds from the record and the request
NewVersion(vo, params) ==
    [dashboard_id |-> vo.dashboard_id,
     domain_id |-> vo.domain_id,
     version |-> vo.version,
     layouts |-> IF Has(params, "layouts") THEN params.layouts ELSE vo.layouts,
     variables |-> IF Has(params, "variables") THEN params.variables ELSE vo.variables,
     variables_schema |->
        IF Has(params, "variables_schema") THEN params.variables_schema
        ELSE vo.variables_schema]

\* replace the stored document that has doc's key
Replace(ds, doc) == {d \in ds : KeyOf(d) # KeyOf(doc)} \cup {doc}

\* remove one copy of a snapshot document
RemoveOne(vs, v) == IF BagIn(v, vs) THEN vs (-) SetToBag({v}) ELSE vs

-----------------------------------------------------------------------------
(* Store calls of the managers and the compensations they register.        *)
(* A transaction context holds the store, the handler's record object vo   *)
(* and the stack of registered compensations.                              *)

Ctx(store, vo, stack) == [store |-> store, vo |-> vo, stack |-> stack]

Undo(kind, doc) == [undo |-> kind, doc |-> doc]

\* the stored document behind a record object (the object itself when it is gone)
Stored(store, vo) ==
    LET found == get_domain_dashboard(store, vo.dashboard_id, vo.domain_id)
    IN  IF found = {} THEN vo ELSE CHOOSE d \in found : TRUE

\* variant: the deletion of the new document is not registered
create_domain_dashboard_no_rollback(ctx, params) ==
    LET vo == NewDashboard(params)
    IN  Ctx(Store(ctx.store.dashboards \cup {vo}, ctx.store.versions), vo, ctx.stack)

\* create_public_dashboard: create the document, then register its deletion
create_domain_dashboard(ctx, params) ==
    LET vo == NewDashboard(params)
    IN  Ctx(Store(ctx.store.dashboards \cup {vo}, ctx.store.versions),
            vo,
            Append(ctx.stack, Undo("delete_dashboard", vo)))

\* increase_version: increment the stored counter, reload, register the decrement
increase_version(ctx) ==
    LET cur == Stored(ctx.store, ctx.vo)
        vo == [cur EXCEPT !.version = @ + 1]
    IN  Ctx(Store(Replace(ctx.store.dashboards, vo), ctx.store.versions),
            vo,
            Append(ctx.stack, Undo("decrement_version", vo)))

\* create_version_by_domain_dashboard_vo: insert the snapshot, register its deletion
create_version_by_domain_dashboard_vo(ctx, params) ==
    LET v == NewVersion(ctx.vo, params)
    IN  Ctx(Store(ctx.store.dashboards, ctx.store.versions (+) SetToBag({v})),
            ctx.vo,
            Append(ctx.stack, Undo("delete_version", v)))

\* the compensation update_public_dashboard_by_vo registers before it writes
update_rollback(ctx) == Append(ctx.stack, Undo("update", to_dict(ctx.vo)))

\* update_public_dashboard_by_vo: register the restore of the prior data, then update
update_domain_dashboard_by_vo(ctx, params) ==
    LET vo == Updated(Stored(ctx.store, ctx.vo), params)
    IN  Ctx(Store(Replace(ctx.store.dashboards, vo), ctx.store.versions),
            vo,
            update_rollback(ctx))

\* delete_versions_by_domain_dashboard_version_vos: delete every given snapshot
delete_versions(ctx, version_vos) ==
    Ctx(Store(ctx.store.dashboards,
              [v \in BagToSet(ctx.store.versions) \ version_vos |-> ctx.store.versions[v]]),
        ctx.vo, ctx.stack)

\* delete_by_domain_dashboard_vo: vo.delete()
delete_by_domain_dashboard_vo(ctx) ==
    Ctx(Store({d \in ctx.store.dashboards : KeyOf(d) # KeyOf(ctx.vo)}, ctx.store.versions),
        ctx.vo, ctx.stack)

\* version_mgr.delete_version: delete the snapshot found under the key
delete_version_call(ctx, version_vos) ==
    Ctx(Store(ctx.store.dashboards,
              RemoveOne(ctx.store.versions, CHOOSE v \in version_vos : TRUE)),
        ctx.vo, ctx.stack)

\* _rollback of create_public_dashboard: vo.delete()
rollback_create(store, vo) ==
    Store({d \in store.dashboards : KeyOf(d) # KeyOf(vo)}, store.versions)

\* variant: the prior data is not written back
rollback_update_skipped(store, old_data) == store

\* _rollback of update_public_dashboard_by_vo: dashboard_vo.update(old_data)
rollback_update(store, old_data) ==
    Store({IF KeyOf(d) = KeyOf(old_data) THEN Updated(d, old_data) ELSE d :
                d \in store.dashboards},
          store.versions)

\* the compensation of increase_version: the stored counter is decremented
rollback_increase_version(store, vo) ==
    Store({IF KeyOf(d) = KeyOf(vo) THEN [d EXCEPT !.version = @ - 1] ELSE d :
                d \in store.dashboards},
          store.versions)

\* the compensation of the snapshot's creation: the snapshot is deleted
rollback_create_version(store, version_vo) ==
    Store(store.dashboards, RemoveOne(store.versions, version_vo))

\* one registered compensation, applied to the store
ApplyUndo(store, u) ==
    CASE u.undo = "delete_dashboard" -> rollback_create(store, u.doc)
      [] u.undo = "decrement_version" -> rollback_increase_version(store, u.doc)
      [] u.undo = "delete_version" -> rollback_create_version(store, u.doc)
      [] u.undo = "update" -> rollback_update(store, u.doc)

\* transaction.execute_rollback: the registered compensations, last one first
RECURSIVE execute_rollback(_, _)
execute_rollback(store, stack) ==
    IF stack = <<>> THEN store
    ELSE execute_rollback(ApplyUndo(store, stack[Len(stack)]),
                          SubSeq(stack, 1, Len(stack) - 1))

\* a store call of a handler: [call |-> name, arg |-> its argument]
Call(name, arg) == [call |-> name, arg |-> arg]

\* the call completes
Do(ctx, c) ==
    CASE c.call = "create_domain_dashboard" -> create_domain_dashboard(ctx, c.arg)
      [] c.call = "increase_version" -> increase_version(ctx)
      [] c.call = "create_version" -> create_version_by_domain_dashboard_vo(ctx, c.arg)
      [] c.call = "update_domain_dashboard_by_vo" ->
            update_domain_dashboard_by_vo(ctx, c.arg)
      [] c.call = "delete_versions" -> delete_versions(ctx, c.arg)
      [] c.call = "delete_dashboard" -> delete_by_domain_dashboard_vo(ctx)
      [] c.call = "delete_version" -> delete_version_call(ctx, c.arg)

\* the call raises: nothing is written; what it registered before writing stays
Raise(ctx, c) ==
    IF c.call = "update_domain_dashboard_by_vo"
    THEN Ctx(ctx.store, ctx.vo, update_rollback(ctx))
    ELSE ctx

RECURSIVE Completed(_, _, _)
Completed(ctx, calls, n) ==
    IF n = 0 THEN ctx ELSE Do(Completed(ctx, calls, n - 1), calls[n])

Outcome(status, store) == [status |-> status, store |-> store]

\* The body of a handler run inside @transaction.  failAt = 0: every call
\* completes.  failAt = i: call i raises (i = Len(calls) + 1: the request
\* fails after the body, in the response pipeline) and the transaction rolls back.
Transaction(store, vo, calls, failAt) ==
    IF failAt = 0
    THEN Outcome("OK", Completed(Ctx(store, vo, <<>>), calls, Len(calls)).store)
    ELSE LET before == Completed(Ctx(store, vo, <<>>), calls, failAt - 1)
             failed == IF failAt <= Len(calls) THEN Raise(before, calls[failAt])
                       ELSE before
         IN  Outcome("StoreError", execute_rollback(failed.store, failed.stack))

-----------------------------------------------------------------------------
(* DashboardService *)

\* what a handler decides before its first store write: an error status, or
\* "RUN" with the record object and the store calls of its body
Plan(status, vo, calls) == [status |-> status, vo |-> vo, calls |-> calls]

NoVo == [dashboard_id |-> "", domain_id |-> ""]

Fails(status) == Plan(status, NoVo, <<>>)

\* variant: the gate looks at the owner alone, not at viewers
DeniedToNonOwner(vo, user_id) == vo.user_id # user_id

\* the access gate of every handler
Denied(vo, user_id) == vo.viewers = "PRIVATE" /\ vo.user_id # user_id

\* variant: any version key in the request counts as a change
_has_version_key_present(dashboard_vo, params, version_change_keys) ==
    \E key \in DOMAIN params : key \in version_change_keys

_has_version_key_in_params(dashboard_vo, params, version_change_keys) ==
    IF \E key \in DOMAIN params : key \in version_change_keys
    THEN \/ Truthy(params, "layouts") /\ dashboard_vo.layouts # params.layouts
         \/ Truthy(params, "variables") /\ dashboard_vo.variables # params.variables
         \/ Truthy(params, "variables_schema")
                /\ params.variables_schema # dashboard_vo.variables_schema
    ELSE FALSE

\* variant: the incoming settings replace the stored ones
_merge_settings_replace(old_settings, new_settings) == new_settings

\* dict.update on a copy of the old settings
DictUpdate(old, new) ==
    {p \in old : \A q \in new : q[1] # p[1]} \cup new

_merge_settings(old_settings, new_settings) ==
    IF old_settings # {} THEN DictUpdate(old_settings, new_settings) ELSE new_settings

\* variant: the first snapshot is taken only when a version key has a non-empty value
create_snapshot_if_truthy(params) ==
    Plan("RUN", NewDashboard(params),
         <<Call("create_domain_dashboard", params)>>
         \o (IF \E key \in version_keys : Truthy(params, key)
             THEN <<Call("create_version", params)>> ELSE <<>>))

\* create: the record, and a first snapshot when a version key is given
create(params) ==
    Plan("RUN", NewDashboard(params),
         <<Call("create_domain_dashboard", params)>>
         \o (IF version_keys \cap DOMAIN params # {}
             THEN <<Call("create_version", params)>> ELSE <<>>))

\* update: the request after the name default and the settings merge
update_params(dashboard_vo, params) ==
    LET named == IF ~Has(params, "name") THEN With(params, "name", dashboard_vo.name)
                 ELSE params
    IN  IF Has(named, "settings")
        THEN With(named, "settings", _merge_settings(dashboard_vo.settings, named.settings))
        ELSE named

\* update: the store calls after the gate
update_calls(dashboard_vo, params) ==
    (IF _has_version_key_in_params(dashboard_vo, params, version_keys)
     THEN <<Call("increase_version", params), Call("create_version", params)>>
     ELSE <<>>)
    \o <<Call("update_domain_dashboard_by_vo", params)>>

update(store, user_id, params) ==
    LET found == get_domain_dashboard(store, params.dashboard_id, params.domain_id)
        dashboard_vo == CHOOSE d \in found : TRUE
    IN  IF found = {} THEN Fails("NotFound")
        ELSE IF Denied(dashboard_vo, user_id) THEN Fails("PermissionDenied")
        ELSE Plan("RUN", dashboard_vo,
                  update_calls(dashboard_vo, update_params(dashboard_vo, params)))

\* variant: the record is deleted and its snapshots are left behind
delete_calls_no_cascade(store, dashboard_vo) == <<Call("delete_dashboard", {})>>

\* delete: the snapshots filtered by dashboard_id, then the record
delete_calls(store, dashboard_vo) ==
    LET version_vos == filter_versions(store, dashboard_vo.dashboard_id)
    IN  (IF version_vos # {} THEN <<Call("delete_versions", version_vos)>> ELSE <<>>)
        \o <<Call("delete_dashboard", {})>>

delete(store, user_id, params) ==
    LET found == get_domain_dashboard(store, params.dashboard_id, params.domain_id)
        dashboard_vo == CHOOSE d \in found : TRUE
    IN  IF found = {} THEN Fails("NotFound")
        ELSE IF Denied(dashboard_vo, user_id) THEN Fails("PermissionDenied")
        ELSE Plan("RUN", dashboard_vo, delete_calls(store, dashboard_vo))

\* variant: the latest version is not refused
delete_version_unchecked(store, user_id, params) ==
    LET found == get_domain_dashboard(store, params.dashboard_id, params.domain_id)
        dashboard_vo == CHOOSE d \in found : TRUE
        version_vos ==
            get_version(store, params.dashboard_id, params.version, params.domain_id)
    IN  IF found = {} THEN Fails("NotFound")
        ELSE IF Denied(dashboard_vo, user_id) THEN Fails("PermissionDenied")
        ELSE IF version_vos = {} THEN Fails("NotFound")
        ELSE Plan("RUN", dashboard_vo, <<Call("delete_version", version_vos)>>)

\* variant: the snapshot is deleted before the latest version is refused
delete_version_checked_late(store, user_id, params) ==
    LET found == get_domain_dashboard(store, params.dashboard_id, params.domain_id)
        dashboard_vo == CHOOSE d \in found : TRUE
        version_vos ==
            get_version(store, params.dashboard_id, params.version, params.domain_id)
    IN  IF found = {} THEN Fails("NotFound")
        ELSE IF Denied(dashboard_vo, user_id) THEN Fails("PermissionDenied")
        ELSE IF version_vos = {} THEN Fails("NotFound")
        ELSE IF dashboard_vo.version = params.version
             THEN Plan("LatestVersionError", dashboard_vo,
                       <<Call("delete_version", version_vos)>>)
        ELSE Plan("RUN", dashboard_vo, <<Call("delete_version", version_vos)>>)

delete_version(store, user_id, params) ==
    LET found == get_domain_dashboard(store, params.dashboard_id, params.domain_id)
        dashboard_vo == CHOOSE d \in found : TRUE
        version_vos ==
            get_version(store, params.dashboard_id, params.version, params.domain_id)
    IN  IF found = {} THEN Fails("NotFound")
        ELSE IF Denied(dashboard_vo, user_id) THEN Fails("PermissionDenied")
        ELSE IF dashboard_vo.version = params.version THEN Fails("LatestVersionError")
        ELSE IF version_vos = {} THEN Fails("NotFound")
        ELSE Plan("RUN", dashboard_vo, <<Call("delete_version", version_vos)>>)

\* variant: variables_schema is not copied from the snapshot
revert_params_partial(params, version_vo) ==
    With(With(params, "layouts", version_vo.layouts), "variables", version_vo.variables)

\* revert_version: the request with the snapshot's fields copied in
revert_params(params, version_vo) ==
    With(With(With(params, "layouts", version_vo.layouts),
              "variables", version_vo.variables),
         "variables_schema", version_vo.variables_schema)

\* variant: the version is not increased before the snapshot is taken
revert_calls_no_increase(params) ==
    <<Call("create_version", params), Call("update_domain_dashboard_by_vo", params)>>

revert_calls(params) ==
    <<Call("increase_version", params), Call("create_version", params),
      Call("update_domain_dashboard_by_vo", params)>>

revert_version(store, user_id, params) ==
    LET found == get_domain_dashboard(store, params.dashboard_id, params.domain_id)
        dashboard_vo == CHOOSE d \in found : TRUE
        version_vos ==
            get_version(store, params.dashboard_id, params.version, params.domain_id)
    IN  IF found = {} THEN Fails("NotFound")
        ELSE IF Denied(dashboard_vo, user_id) THEN Fails("PermissionDenied")
        ELSE IF version_vos = {} THEN Fails("NotFound")
        ELSE Plan("RUN", dashboard_vo,
                  revert_calls(revert_params(params, CHOOSE v \in version_vos : TRUE)))

\* the response of a read: a status and the value returned
Response(status, value) == [status |-> status, value |-> value]

get(store, user_id, params) ==
    LET found == get_domain_dashboard(store, params.dashboard_id, params.domain_id)
        dashboard_vo == CHOOSE d \in found : TRUE
    IN  IF found = {} THEN Response("NotFound", {})
        ELSE IF Denied(dashboard_vo, user_id) THEN Response("PermissionDenied", {})
        ELSE Response("OK", {dashboard_vo})

\* variant: the snapshot is looked up before the gate
get_version_before_gate(store, user_id, params) ==
    LET found == get_domain_dashboard(store, params.dashboard_id, params.domain_id)
        dashboard_vo == CHOOSE d \in found : TRUE
        version_vos ==
            get_version(store, params.dashboard_id, params.version, params.domain_id)
    IN  IF found = {} THEN Response("NotFound", {})
        ELSE IF version_vos = {} THEN Response("NotFound", {})
        ELSE IF Denied(dashboard_vo, user_id) THEN Response("PermissionDenied", {})
        ELSE Response("OK", {CHOOSE v \in version_vos : TRUE})

get_version_handler(store, user_id, params) ==
    LET found == get_domain_dashboard(store, params.dashboard_id, params.domain_id)
        dashboard_vo == CHOOSE d \in found : TRUE
        version_vos ==
            get_version(store, params.dashboard_id, params.version, params.domain_id)
    IN  IF found = {} THEN Response("NotFound", {})
        ELSE IF Denied(dashboard_vo, user_id) THEN Response("PermissionDenied", {})
        ELSE IF version_vos = {} THEN Response("NotFound", {})
        ELSE Response("OK", {CHOOSE v \in version_vos : TRUE})

\* list_versions: the query runs first, then the record is fetched and gated
list_versions(store, user_id, params) ==
    LET version_vos ==
            {v \in BagToSet(store.versions) :
                v.dashboard_id = params.dashboard_id /\ v.domain_id = params.domain_id}
        found == get_domain_dashboard(store, params.dashboard_id, params.domain_id)
        dashboard_vo == CHOOSE d \in found : TRUE
    IN  IF found = {} THEN Response("NotFound", {})
        ELSE IF Denied(dashboard_vo, user_id) THEN Response("PermissionDenied", {})
        ELSE Response("OK", {<<version_vos, Cardinality(version_vos), dashboard_vo.version>>})

-----------------------------------------------------------------------------
(* list and stat: the query of the caller and the ownership filter *)

\* the null user id
None == "None"

\* a filter condition {"k": key, "v": value or list of values, "o": operator};
\* the value, or the values of a list, are held as a set
Condition(k, v, o) == [k |-> k, v |-> v, o |-> o]

Matches(doc, cond) ==
    CASE cond.o = "eq" -> \A x \in cond.v : doc[cond.k] = x
      [] cond.o = "not" -> \A x \in cond.v : doc[cond.k] # x
      [] cond.o = "in" -> doc[cond.k] \in cond.v

Query(filter, filter_or) == [filter |-> filter, filter_or |-> filter_or]

\* the documents a query selects: every condition of filter, and one of
\* filter_or when there is any
Selected(store, query) ==
    {d \in store.dashboards :
        /\ \A i \in 1 .. Len(query.filter) : Matches(d, query.filter[i])
        /\ \/ query.filter_or = <<>>
           \/ \E i \in 1 .. Len(query.filter_or) : Matches(d, query.filter_or[i])}

\* dashboard_mgr.list_domain_dashboards(query): the documents and their count
list_domain_dashboards(store, query) ==
    <<Selected(store, query), Cardinality(Selected(store, query))>>

\* dashboard_mgr.stat_domain_dashboards(query): an aggregate of the selected
\* documents, here their count
stat_domain_dashboards(store, query) == Cardinality(Selected(store, query))

\* @append_query_filter(keys): each key present in params becomes an eq condition
RECURSIVE append_query_filter(_, _, _)
append_query_filter(keys, params, filter) ==
    IF keys = <<>> THEN filter
    ELSE append_query_filter(Tail(keys), params,
            IF Has(params, Head(keys))
            THEN Append(filter, Condition(Head(keys), {params[Head(keys)]}, "eq"))
            ELSE filter)

\* the condition list and stat append: user_id in [caller, None]
OwnershipFilter(user_id) == Condition("user_id", {user_id, None}, "in")

\* variant: the query of the caller is passed on as it is
list_unscoped(store, user_id, params) ==
    list_domain_dashboards(store,
        Query(append_query_filter(
                  <<"dashboard_id", "name", "viewers", "user_id", "domain_id">>,
                  params, params.query.filter),
              params.query.filter_or))

list(store, user_id, params) ==
    LET filter == append_query_filter(
                      <<"dashboard_id", "name", "viewers", "user_id", "domain_id">>,
                      params, params.query.filter)
    IN  list_domain_dashboards(store,
            Query(Append(filter, OwnershipFilter(user_id)), params.query.filter_or))

stat(store, user_id, params) ==
    LET filter == append_query_filter(<<"domain_id">>, params, params.query.filter)
    IN  stat_domain_dashboards(store,
            Query(Append(filter, OwnershipFilter(user_id)), params.query.filter_or))

-----------------------------------------------------------------------------
(* The requests *)

\* the worker units that serve requests; a worker with no request is Idle
Workers == {"w1", "w2"}

Idle == [mode |-> "idle"]

TheStore == Store(dashboards, versions)

VersionNumbers == 0 .. MaxOps

\* the dashboard_id the id generator hands out next in a domain
IdOrder == <<"d1">>

Unissued(domain_id) == {i \in 1 .. Len(IdOrder) : <<IdOrder[i], domain_id>> \notin issued}

NextId(domain_id) ==
    IdOrder[CHOOSE i \in Unissued(domain_id) : \A j \in Unissued(domain_id) : i <= j]

Request(dashboard_id, domain_id, body) ==
    With(With(body, "dashboard_id", dashboard_id), "domain_id", domain_id)

VersionRequest(dashboard_id, domain_id, version) ==
    [dashboard_id |-> dashboard_id, domain_id |-> domain_id, version |-> version]

CreateRequest(dashboard_id, domain_id, user_id, viewers, body) ==
    With(With(With(Request(dashboard_id, domain_id, body), "name", "n1"),
              "user_id", user_id),
         "viewers", viewers)

\* the outcome of a planned handler when its call failAt raises (0: none does);
\* a handler that raises an error does so after the calls it has planned, and
\* the transaction rolls back what they registered
Serve(store, plan, failAt) ==
    IF plan.status = "RUN" THEN Transaction(store, plan.vo, plan.calls, failAt)
    ELSE LET ran == Completed(Ctx(store, plan.vo, <<>>), plan.calls, Len(plan.calls))
         IN  Outcome(plan.status, execute_rollback(ran.store, ran.stack))

CanFailAt(plan, failAt) ==
    failAt = 0 \/ (plan.status = "RUN" /\ failAt <= Len(plan.calls) + 1)

Commit(out) ==
    /\ dashboards' = out.store.dashboards
    /\ versions' = out.store.versions
    /\ seen' = seen \cup {<<d.dashboard_id, d.domain_id, d.version>> :
                              d \in out.store.dashboards}
    /\ nops' = IF out.status = "OK" THEN nops + 1 ELSE nops
    /\ UNCHANGED inflight

\* variant: the required parameters are not checked
check_required_skipped(keys, params) == TRUE

\* @check_required(keys): every key is in params with a value that is not None
check_required(keys, params) == \A key \in keys : Has(params, key) /\ params[key] # None

\* a request without a required parameter is refused before the handler runs
Create(user_id, domain_id, viewers, body, failAt) ==
    /\ nops < MaxOps
    /\ Unissued(domain_id) # {}
    /\ LET params == CreateRequest(NextId(domain_id), domain_id, user_id, viewers, body)
           plan == IF check_required({"name", "user_id", "domain_id"}, params)
                   THEN create(params) ELSE Fails("ValidationError")
       IN  /\ CanFailAt(plan, failAt)
           /\ Commit(Serve(TheStore, plan, failAt))
           /\ issued' = IF plan.status = "RUN"
                        THEN issued \cup {<<NextId(domain_id), domain_id>>} ELSE issued

Update(user_id, dashboard_id, domain_id, body, failAt) ==
    /\ nops < MaxOps
    /\ LET plan == update(TheStore, user_id, Request(dashboard_id, domain_id, body))
       IN  /\ CanFailAt(plan, failAt)
           /\ Commit(Serve(TheStore, plan, failAt))
    /\ UNCHANGED issued

RevertVersion(user_id, dashboard_id, domain_id, version, failAt) ==
    /\ nops < MaxOps
    /\ LET plan == revert_version(TheStore, user_id,
                                  VersionRequest(dashboard_id, domain_id, version))
       IN  /\ CanFailAt(plan, failAt)
           /\ Commit(Serve(TheStore, plan, failAt))
    /\ UNCHANGED issued

Delete(user_id, dashboard_id, domain_id) ==
    /\ nops < MaxOps
    /\ LET plan == delete(TheStore, user_id,
                          [dashboard_id |-> dashboard_id, domain_id |-> domain_id])
       IN  /\ Commit(Serve(TheStore, plan, 0))
    /\ UNCHANGED issued

DeleteVersion(user_id, dashboard_id, domain_id, version) ==
    /\ nops < MaxOps
    /\ LET plan == delete_version(TheStore, user_id,
                                  VersionRequest(dashboard_id, domain_id, version))
       IN  /\ Commit(Serve(TheStore, plan, 0))
    /\ UNCHANGED issued

\* the reads answer from the store and leave it as it is
Get(user_id, dashboard_id, domain_id) ==
    /\ get(TheStore, user_id, [dashboard_id |-> dashboard_id, domain_id |-> domain_id]).status
            \in {"OK", "NotFound", "PermissionDenied"}
    /\ UNCHANGED vars

GetVersion(user_id, dashboard_id, domain_id, version) ==
    /\ get_version_handler(TheStore, user_id,
                           VersionRequest(dashboard_id, domain_id, version)).status
            \in {"OK", "NotFound", "PermissionDenied"}
    /\ UNCHANGED vars

ListVersions(user_id, dashboard_id, domain_id) ==
    /\ list_versions(TheStore, user_id,
                     [dashboard_id |-> dashboard_id, domain_id |-> domain_id]).status
            \in {"OK", "NotFound", "PermissionDenied"}
    /\ UNCHANGED vars

\* the filters a caller sends with list and stat
FilterChoices ==
    {<<>>,
     <<Condition("user_id", {"u1"}, "eq")>>,
     <<Condition("user_id", {"u1", "u2"}, "in"), Condition("viewers", {"PRIVATE"}, "not")>>}

FilterOrChoices ==
    {<<>>, <<Condition("user_id", {"u1"}, "eq"), Condition("user_id", {"u2"}, "eq")>>}

ListRequest(domain_id, user_id, filter, filter_or) ==
    LET params == [domain_id |-> domain_id, query |-> Query(filter, filter_or)]
    IN  IF user_id[1] THEN With(params, "user_id", user_id[2]) ELSE params

ListRequests ==
    {ListRequest(dom, u, f, o) :
        dom \in Domains, u \in {<<FALSE, None>>} \cup {<<TRUE, x>> : x \in Users},
        f \in FilterChoices, o \in FilterOrChoices}

List(user_id, params) ==
    /\ list(TheStore, user_id, params)[2] >= 0
    /\ UNCHANGED vars

Stat(user_id, params) ==
    /\ stat(TheStore, user_id, params) >= 0
    /\ UNCHANGED vars

\* the request bodies a caller sends
BodyChoices ==
    Choices("layouts") \X Choices("variables") \X Choices("variables_schema")
        \X Choices("settings")

BodyOf(c) == Body(c[1], c[2], c[3], c[4])

FailPoints == 0 .. 4

Init ==
    /\ dashboards = {}
    /\ versions = EmptyBag
    /\ issued = {}
    /\ seen = {}
    /\ nops = 0
    /\ inflight = [w \in Workers |-> Idle]

Next ==
    \/ \E u \in Owners \cup {None}, dom \in Domains, w \in Viewers, c \in BodyChoices,
          f \in FailPoints :
            Create(u, dom, w, BodyOf(c), f)
    \/ \E u \in Users, k \in Keys, c \in BodyChoices, f \in FailPoints :
            Update(u, k[1], k[2], BodyOf(c), f)
    \/ \E u \in Users, k \in Keys, v \in VersionNumbers, f \in FailPoints :
            RevertVersion(u, k[1], k[2], v, f)
    \/ \E u \in Users, k \in Keys : Delete(u, k[1], k[2])
    \/ \E u \in Users, k \in Keys, v \in VersionNumbers : DeleteVersion(u, k[1], k[2], v)
    \/ \E u \in Users, k \in Keys : Get(u, k[1], k[2])
    \/ \E u \in Users, k \in Keys, v \in VersionNumbers : GetVersion(u, k[1], k[2], v)
    \/ \E u \in Users, k \in Keys : ListVersions(u, k[1], k[2])
    \/ \E u \in Users, q \in ListRequests : List(u, q)
    \/ \E u \in Users, q \in ListRequests : Stat(u, q)

Spec == Init /\ [][Next]_vars

-----------------------------------------------------------------------------
(* Settings: creates and updates whose settings mappings range over every   *)
(* mapping of two keys, with or without a change of layouts                 *)

SettingsKeys == {"a", "b"}
SettingsNumbers == {1, 2}

SettingsDicts ==
    {m \in SUBSET (SettingsKeys \X SettingsNumbers) :
        \A p \in m, q \in m : p[1] = q[1] => p = q}

SettingsChoices == {<<FALSE, {}>>} \cup {<<TRUE, m>> : m \in SettingsDicts}

SettingsBody(cl, ct) == Body(cl, <<FALSE, {}>>, <<FALSE, {}>>, ct)

SettingsNext ==
    \/ \E u \in Owners, dom \in Domains, w \in Viewers,
          cl \in Choices("layouts"), ct \in SettingsChoices :
            Create(u, dom, w, SettingsBody(cl, ct), 0)
    \/ \E u \in Users, k \in Keys, cl \in Choices("layouts"), ct \in SettingsChoices :
            Update(u, k[1], k[2], SettingsBody(cl, ct), 0)

SettingsSpec == Init /\ [][SettingsNext]_vars

-----------------------------------------------------------------------------
(* Two domains: a dashboard_id is unique within its domain, so each domain  *)
(* may hold a dashboard d1                                                  *)

CrossDomains == {"domA", "domB"}
CrossKeys == DashboardIds \X CrossDomains

LayoutsBody(cl) == Body(cl, <<FALSE, {}>>, <<FALSE, {}>>, <<FALSE, {}>>)

CrossNext ==
    \/ \E u \in Owners, dom \in CrossDomains, w \in Viewers, cl \in Choices("layouts") :
            Create(u, dom, w, LayoutsBody(cl), 0)
    \/ \E u \in Users, k \in CrossKeys, cl \in Choices("layouts") :
            Update(u, k[1], k[2], LayoutsBody(cl), 0)
    \/ \E u \in Users, k \in CrossKeys : Delete(u, k[1], k[2])

CrossSpec == Init /\ [][CrossNext]_vars

-----------------------------------------------------------------------------
(* Concurrent requests.  Each request is served by one worker; the workers  *)
(* share nothing but the store.  A worker reads the record and passes the   *)
(* checks of its handler when it begins, then makes its store calls one at  *)
(* a time; the calls of the workers interleave.  When a call raises, or the *)
(* request fails after its last call, the worker runs its compensations,    *)
(* last one first, one store call at a time.                                *)

\* the requests begun, the create included
MaxStarted == MaxOps + 1

\* the handler of a worker's request, applied to the store it reads
HandlerPlan(store, op, user_id, req) ==
    CASE op = "update" -> update(store, user_id, req)
      [] op = "revert_version" -> revert_version(store, user_id, req)
      [] op = "delete_version" -> delete_version(store, user_id, req)

\* a worker serving a request: the request, the number of the request, the
\* store as the worker found it, its store calls and how many are done, its
\* record object and its registered compensations
Running(op, user_id, req, began, base, plan) ==
    [mode |-> "run", op |-> op, user_id |-> user_id, req |-> req, began |-> began,
     base |-> base, calls |-> plan.calls, done |-> 0, vo |-> plan.vo, stack |-> <<>>,
     status |-> "RUN"]

\* a worker that has answered its request
Answered(job, status) ==
    [mode |-> "done", op |-> job.op, user_id |-> job.user_id, req |-> job.req,
     began |-> job.began, base |-> Store({}, EmptyBag), calls |-> <<>>, done |-> 0,
     vo |-> NoVo, stack |-> <<>>, status |-> status]

Free(w) == inflight[w].mode \in {"idle", "done"}

Write(store) ==
    /\ dashboards' = store.dashboards
    /\ versions' = store.versions
    /\ seen' = seen \cup {<<d.dashboard_id, d.domain_id, d.version>> : d \in store.dashboards}

\* a worker takes a request that passes the handler's checks
Begin(w, op, user_id, req) ==
    /\ Free(w)
    /\ nops < MaxStarted
    /\ LET plan == HandlerPlan(TheStore, op, user_id, req)
       IN  /\ plan.status = "RUN"
           /\ inflight' = [inflight EXCEPT
                               ![w] = Running(op, user_id, req, nops, TheStore, plan)]
    /\ nops' = nops + 1
    /\ UNCHANGED <<dashboards, versions, issued, seen>>

BeginUpdate(w, user_id, dashboard_id, domain_id, body) ==
    Begin(w, "update", user_id, Request(dashboard_id, domain_id, body))

BeginRevertVersion(w, user_id, dashboard_id, domain_id, version) ==
    Begin(w, "revert_version", user_id, VersionRequest(dashboard_id, domain_id, version))

BeginDeleteVersion(w, user_id, dashboard_id, domain_id, version) ==
    Begin(w, "delete_version", user_id, VersionRequest(dashboard_id, domain_id, version))

\* the next store call of the worker completes
Step(w) ==
    LET job == inflight[w]
    IN  /\ job.mode = "run"
        /\ job.done < Len(job.calls)
        /\ LET ctx == Do(Ctx(TheStore, job.vo, job.stack), job.calls[job.done + 1])
           IN  /\ Write(ctx.store)
               /\ inflight' = [inflight EXCEPT
                                   ![w] = [job EXCEPT !.done = @ + 1, !.vo = ctx.vo,
                                                      !.stack = ctx.stack]]
        /\ UNCHANGED <<issued, nops>>

\* the request returns after its last call
Finish(w) ==
    LET job == inflight[w]
    IN  /\ job.mode = "run"
        /\ job.done = Len(job.calls)
        /\ inflight' = [inflight EXCEPT ![w] = Answered(job, "OK")]
        /\ UNCHANGED <<dashboards, versions, issued, seen, nops>>

\* the compensations a worker holds when its request fails now
FailingStack(job) ==
    IF job.done < Len(job.calls)
    THEN Raise(Ctx(TheStore, job.vo, job.stack), job.calls[job.done + 1]).stack
    ELSE job.stack

\* the next call of an update or a revert raises, or the request fails after
\* its last call: the transaction starts to roll back
Fail(w) ==
    LET job == inflight[w]
    IN  /\ job.mode = "run"
        /\ job.op \in {"update", "revert_version"}
        /\ inflight' = [inflight EXCEPT
                            ![w] = [job EXCEPT !.mode = "rollback",
                                               !.stack = FailingStack(job)]]
        /\ UNCHANGED <<dashboards, versions, issued, seen, nops>>

\* the last registered compensation runs; after the first registered one the
\* request is answered with the error
Compensate(w) ==
    LET job == inflight[w]
    IN  /\ job.mode = "rollback"
        /\ IF job.stack = <<>>
           THEN /\ inflight' = [inflight EXCEPT ![w] = Answered(job, "StoreError")]
                /\ UNCHANGED <<dashboards, versions, seen>>
           ELSE /\ Write(ApplyUndo(TheStore, job.stack[Len(job.stack)]))
                /\ inflight' = [inflight EXCEPT
                                    ![w] = [job EXCEPT
                                               !.stack = SubSeq(@, 1, Len(@) - 1)]]
        /\ UNCHANGED <<issued, nops>>

\* the bodies of the concurrent updates: a change of layouts, or new settings
ConcurrentBodies ==
    {Body(<<TRUE, <<"w1">>>>, <<FALSE, {}>>, <<FALSE, {}>>, <<FALSE, {}>>),
     Body(<<FALSE, <<>>>>, <<FALSE, {}>>, <<FALSE, {}>>, <<TRUE, {<<"a", 1>>}>>)}

ConcurrentNext ==
    \/ \E u \in Owners, dom \in Domains, cl \in Choices("layouts") :
            /\ \A w \in Workers : Free(w)
            /\ Create(u, dom, "PUBLIC", LayoutsBody(cl), 0)
    \/ \E w \in Workers, u \in Owners, k \in Keys, body \in ConcurrentBodies :
            BeginUpdate(w, u, k[1], k[2], body)
    \/ \E w \in Workers, u \in Owners, k \in Keys, v \in VersionNumbers :
            BeginRevertVersion(w, u, k[1], k[2], v)
    \/ \E w \in Workers, u \in Owners, k \in Keys, v \in VersionNumbers :
            BeginDeleteVersion(w, u, k[1], k[2], v)
    \/ \E w \in Workers : Step(w)
    \/ \E w \in Workers : Finish(w)
    \/ \E w \in Workers : Fail(w)
    \/ \E w \in Workers : Compensate(w)

ConcurrentSpec == Init /\ [][ConcurrentNext]_vars

-----------------------------------------------------------------------------
(* Vocabulary of the properties.  A property about a request is stated for  *)
(* every reachable store and every input of the request: the handler is    *)
(* applied to the store and its outcome is examined.                       *)

Exists(k) == get_domain_dashboard(TheStore, k[1], k[2]) # {}

RecordIn(store, k) == CHOOSE d \in get_domain_dashboard(store, k[1], k[2]) : TRUE

Record(k) == RecordIn(TheStore, k)

SnapshotsIn(store, k) ==
    {v \in BagToSet(store.versions) : v.dashboard_id = k[1] /\ v.domain_id = k[2]}

\* the three version-bearing fields of a record or of a snapshot
Content(doc) ==
    [layouts |-> doc.layouts, variables |-> doc.variables,
     variables_schema |-> doc.variables_schema]

\* a version-bearing field is present in the body with a value that differs
\* from the record's (deep inequality)
Changes(body, doc) == \E key \in version_keys \cap DOMAIN body : body[key] # doc[key]

UpdateOutcome(u, k, body, failAt) ==
    Serve(TheStore, update(TheStore, u, Request(k[1], k[2], body)), failAt)

RevertOutcome(u, k, v, failAt) ==
    Serve(TheStore, revert_version(TheStore, u, VersionRequest(k[1], k[2], v)), failAt)

DeleteOutcome(u, k) ==
    Serve(TheStore, delete(TheStore, u, [dashboard_id |-> k[1], domain_id |-> k[2]]), 0)

DeleteVersionOutcome(u, k, v) ==
    Serve(TheStore, delete_version(TheStore, u, VersionRequest(k[1], k[2], v)), 0)

\* C1: an authorized update that changes a version-bearing field (also to an
\* empty list or mapping) creates exactly one snapshot, at the record's new
\* version, which is the old version plus one.
C1_ChangedFieldCreatesSnapshot ==
    \A u \in Users, k \in Keys, c \in BodyChoices :
        (Exists(k) /\ ~Denied(Record(k), u) /\ Changes(BodyOf(c), Record(k))) =>
            LET out == UpdateOutcome(u, k, BodyOf(c), 0)
                new == RecordIn(out.store, k)
            IN  /\ out.status = "OK"
                /\ new.version = Record(k).version + 1
                /\ \E v \in SnapshotsIn(out.store, k) :
                        /\ v.version = new.version
                        /\ out.store.versions = versions (+) SetToBag({v})

\* C2: an authorized update whose body has no version-bearing field, or only
\* version-bearing fields deep-equal to the record's, leaves the version, the
\* version-bearing fields and the snapshots as they are.
C2_UnchangedFieldsKeepVersion ==
    \A u \in Users, k \in Keys, c \in BodyChoices :
        (Exists(k) /\ ~Denied(Record(k), u) /\ ~Changes(BodyOf(c), Record(k))) =>
            LET out == UpdateOutcome(u, k, BodyOf(c), 0)
                new == RecordIn(out.store, k)
            IN  /\ out.status = "OK"
                /\ new.version = Record(k).version
                /\ out.store.versions = versions
                /\ \A f \in DOMAIN new : f # "settings" => new[f] = Record(k)[f]

C2_Witness ==
    \E u \in Users, k \in Keys, c \in BodyChoices :
        /\ Exists(k) /\ ~Denied(Record(k), u)
        /\ Record(k).version > 0
        /\ version_keys \subseteq DOMAIN BodyOf(c)
        /\ Has(BodyOf(c), "settings")
        /\ Truthy(BodyOf(c), "layouts")
        /\ ~Changes(BodyOf(c), Record(k))
        /\ UpdateOutcome(u, k, BodyOf(c), 0).status = "OK"
        /\ RecordIn(UpdateOutcome(u, k, BodyOf(c), 0).store, k).settings
                # Record(k).settings

\* C3: over any sequence of requests the version of a record never decreases.
C3_VersionNeverDecreases ==
    [][\A d \in dashboards : \A e \in dashboards' :
            KeyOf(d) = KeyOf(e) => e.version >= d.version]_vars

\* an update and then a revert to the first snapshot have raised the version twice
C3_Witness ==
    \E d \in dashboards :
        /\ d.version = 2
        /\ \E v0, v1, v2 \in SnapshotsIn(TheStore, KeyOf(d)) :
                /\ v0.version = 0 /\ v1.version = 1 /\ v2.version = 2
                /\ Content(v1) # Content(v0)
                /\ Content(v2) = Content(v0)

\* C4: an authorized DeleteVersion of the record's current version fails with
\* LatestVersionError; of any other version that has a snapshot it succeeds
\* and GetVersion of that version is NotFound afterwards.
C4_DeleteVersion ==
    \A u \in Users, k \in Keys, v \in VersionNumbers :
        (Exists(k) /\ ~Denied(Record(k), u)) =>
            LET out == DeleteVersionOutcome(u, k, v)
                req == VersionRequest(k[1], k[2], v)
            IN  /\ v = Record(k).version =>
                    out.status = "LatestVersionError" /\ out.store = TheStore
                /\ (v # Record(k).version /\ get_version(TheStore, k[1], v, k[2]) # {}) =>
                    /\ out.status = "OK"
                    /\ get_version_handler(out.store, u, req).status = "NotFound"

C4_Witness ==
    \E u \in Users, k \in Keys, v \in VersionNumbers :
        /\ Exists(k) /\ ~Denied(Record(k), u)
        /\ v # Record(k).version
        /\ get_version(TheStore, k[1], v, k[2]) # {}
        /\ get_version(TheStore, k[1], Record(k).version, k[2]) # {}
        /\ DeleteVersionOutcome(u, k, v).status = "OK"
        /\ get_version_handler(TheStore, u, VersionRequest(k[1], k[2], v)).status = "OK"
        /\ get_version_handler(DeleteVersionOutcome(u, k, v).store, u,
                               VersionRequest(k[1], k[2], v)).status = "NotFound"
        /\ DeleteVersionOutcome(u, k, Record(k).version).status = "LatestVersionError"

\* C5: after a successful RevertVersion(v) the record's layouts, variables and
\* variables_schema equal those of snapshot v.
C5_RevertRestoresContent ==
    \A u \in Users, k \in Keys, v \in VersionNumbers :
        (Exists(k) /\ ~Denied(Record(k), u) /\ get_version(TheStore, k[1], v, k[2]) # {}) =>
            LET out == RevertOutcome(u, k, v, 0)
            IN  /\ out.status = "OK"
                /\ \A snapshot \in get_version(TheStore, k[1], v, k[2]) :
                        Content(RecordIn(out.store, k)) = Content(snapshot)

C5_Witness ==
    \E u \in Users, k \in Keys, v \in VersionNumbers :
        /\ Exists(k) /\ ~Denied(Record(k), u)
        /\ \E snapshot \in get_version(TheStore, k[1], v, k[2]) :
                /\ \A f \in version_keys : snapshot[f] # Record(k)[f]
                /\ RevertOutcome(u, k, v, 0).status = "OK"
                /\ Content(RecordIn(RevertOutcome(u, k, v, 0).store, k)) = Content(snapshot)

\* C6: a successful RevertVersion(v) raises the version above every version
\* the dashboard has had (it is not set back to v) and creates exactly one
\* snapshot, at the new version, also when snapshot v equals the record.
C6_RevertMovesForward ==
    \A u \in Users, k \in Keys, v \in VersionNumbers :
        (Exists(k) /\ ~Denied(Record(k), u) /\ get_version(TheStore, k[1], v, k[2]) # {}) =>
            LET out == RevertOutcome(u, k, v, 0)
                new == RecordIn(out.store, k)
            IN  /\ out.status = "OK"
                /\ new.version # v
                /\ \A n \in VersionNumbers : <<k[1], k[2], n>> \in seen => new.version > n
                /\ \E snapshot \in SnapshotsIn(out.store, k) :
                        /\ snapshot.version = new.version
                        /\ out.store.versions = versions (+) SetToBag({snapshot})

\* a revert to an earlier snapshot whose content is the record's current content
C6_Witness ==
    \E u \in Users, k \in Keys, v \in VersionNumbers :
        /\ Exists(k) /\ ~Denied(Record(k), u)
        /\ v < Record(k).version
        /\ \E snapshot \in get_version(TheStore, k[1], v, k[2]) :
                Content(snapshot) = Content(Record(k))
        /\ RevertOutcome(u, k, v, 0).status = "OK"
        /\ RecordIn(RevertOutcome(u, k, v, 0).store, k).version = Record(k).version + 1

\* what a caller observes of a gated request on a store: status and value
\* the gated requests: those taking a dashboard key, those taking a version
\* number as well, and update, which takes a body
PlainOps == {"get", "delete", "list_versions"}
VersionOps == {"delete_version", "revert_version", "get_version"}
GatedOps == PlainOps \cup VersionOps \cup {"update"}

NoBody == [x \in {} |-> {}]

\* the record a successful update or revert returns
Returned(store, k, out) ==
    Response(out.status, IF out.status = "OK" THEN {RecordIn(out.store, k)} ELSE {})

Observation(store, op, u, k, v, body) ==
    LET key == [dashboard_id |-> k[1], domain_id |-> k[2]]
        req == VersionRequest(k[1], k[2], v)
    IN  CASE op = "get" -> get(store, u, key)
          [] op = "get_version" -> get_version_handler(store, u, req)
          [] op = "list_versions" -> list_versions(store, u, key)
          [] op = "update" ->
                Returned(store, k,
                         Serve(store, update(store, u, Request(k[1], k[2], body)), 0))
          [] op = "revert_version" ->
                Returned(store, k, Serve(store, revert_version(store, u, req), 0))
          [] op = "delete" -> Response(Serve(store, delete(store, u, key), 0).status, {})
          [] op = "delete_version" ->
                Response(Serve(store, delete_version(store, u, req), 0).status, {})

\* the store a mutating request leaves (the store itself for a read)
StoreAfter(store, op, u, k, v, body) ==
    LET key == [dashboard_id |-> k[1], domain_id |-> k[2]]
        req == VersionRequest(k[1], k[2], v)
    IN  CASE op = "update" ->
                Serve(store, update(store, u, Request(k[1], k[2], body)), 0).store
          [] op = "revert_version" -> Serve(store, revert_version(store, u, req), 0).store
          [] op = "delete" -> Serve(store, delete(store, u, key), 0).store
          [] op = "delete_version" -> Serve(store, delete_version(store, u, req), 0).store
          [] OTHER -> store

PrivateOfOther(k, u) ==
    Exists(k) /\ Record(k).viewers = "PRIVATE" /\ Record(k).user_id # u

\* C7: on an existing record each gated request fails with PermissionDenied
\* exactly when the record is PRIVATE and owned by another user.
C7_GateDeniesExactlyNonOwnersOfPrivate ==
    \A u \in Users, k \in Keys :
        Exists(k) =>
            /\ \A op \in PlainOps :
                  Observation(TheStore, op, u, k, 0, NoBody).status = "PermissionDenied"
                      <=> PrivateOfOther(k, u)
            /\ \A op \in VersionOps, v \in VersionNumbers :
                  Observation(TheStore, op, u, k, v, NoBody).status = "PermissionDenied"
                      <=> PrivateOfOther(k, u)
            /\ \A c \in BodyChoices :
                  Observation(TheStore, "update", u, k, 0, BodyOf(c)).status
                      = "PermissionDenied" <=> PrivateOfOther(k, u)

\* a PRIVATE record: its owner is served, the other user is denied
C7_Witness ==
    \E k \in Keys :
        /\ PrivateOfOther(k, "u2")
        /\ Record(k).version > 0
        /\ \A op \in GatedOps \ {"delete_version"} :
              /\ Observation(TheStore, op, "u1", k, 0, Body(<<TRUE, <<"w1">>>>,
                    <<FALSE, {}>>, <<FALSE, {}>>, <<FALSE, {}>>)).status = "OK"
              /\ Observation(TheStore, op, "u2", k, 0, Body(<<TRUE, <<"w1">>>>,
                    <<FALSE, {}>>, <<FALSE, {}>>, <<FALSE, {}>>)).status
                        = "PermissionDenied"
        /\ Observation(TheStore, "delete_version", "u1", k, 0, NoBody).status = "OK"

\* the store without a dashboard and its snapshots
StoreWithout(store, k) ==
    Store({d \in store.dashboards : KeyOf(d) # k},
          [v \in BagToSet(store.versions) \ SnapshotsIn(store, k) |-> store.versions[v]])

\* C8 as stated: what a non-owner observes of a PRIVATE dashboard is what the
\* caller observes when the dashboard does not exist.
SameWithout(op, u, k, v, body) ==
    Observation(TheStore, op, u, k, v, body)
        = Observation(StoreWithout(TheStore, k), op, u, k, v, body)

C8_NonOwnerCannotTellExistence ==
    \A u \in Users, k \in Keys :
        PrivateOfOther(k, u) =>
            /\ \A op \in PlainOps : SameWithout(op, u, k, 0, NoBody)
            /\ \A op \in VersionOps, v \in VersionNumbers : SameWithout(op, u, k, v, NoBody)
            /\ \A c \in BodyChoices : SameWithout("update", u, k, 0, BodyOf(c))

\* C8 amended: a non-owner of a PRIVATE dashboard is answered PermissionDenied
\* by every gated request, with no data and no change of the store, whatever
\* the dashboard's fields, version and snapshots are (a missing id answers
\* NotFound, so existence is the one thing revealed).
OnlyExistence(op, u, k, v, body) ==
    /\ Observation(TheStore, op, u, k, v, body) = Response("PermissionDenied", {})
    /\ StoreAfter(TheStore, op, u, k, v, body) = TheStore
    /\ Observation(StoreWithout(TheStore, k), op, u, k, v, body)
            = Response("NotFound", {})

C8_NonOwnerLearnsOnlyExistence ==
    \A u \in Users, k \in Keys :
        PrivateOfOther(k, u) =>
            /\ \A op \in PlainOps : OnlyExistence(op, u, k, 0, NoBody)
            /\ \A op \in VersionOps, v \in VersionNumbers : OnlyExistence(op, u, k, v, NoBody)
            /\ \A c \in BodyChoices : OnlyExistence("update", u, k, 0, BodyOf(c))

\* a PRIVATE dashboard with two snapshots, one of which the owner may delete
C8_Witness ==
    \E k \in Keys :
        /\ PrivateOfOther(k, "u2")
        /\ Cardinality(SnapshotsIn(TheStore, k)) >= 2
        /\ Observation(TheStore, "get_version", "u1", k, 0, NoBody).status = "OK"
        /\ Observation(TheStore, "get_version", "u2", k, 0, NoBody)
                = Response("PermissionDenied", {})
        /\ Observation(TheStore, "get_version", "u2", k, 3, NoBody)
                = Response("PermissionDenied", {})

\* C9: after a successful DeleteDashboard the record and every snapshot the
\* dashboard had are unfetchable.
C9_DeleteCascades ==
    \A u \in Users, k \in Keys :
        (Exists(k) /\ ~Denied(Record(k), u)) =>
            LET out == DeleteOutcome(u, k)
                key == [dashboard_id |-> k[1], domain_id |-> k[2]]
            IN  /\ out.status = "OK"
                /\ \A caller \in Users :
                      /\ get(out.store, caller, key).status = "NotFound"
                      /\ \A v \in VersionNumbers :
                            get_version_handler(out.store, caller,
                                VersionRequest(k[1], k[2], v)).status = "NotFound"
                /\ \A v \in VersionNumbers : get_version(out.store, k[1], v, k[2]) = {}
                /\ SnapshotsIn(out.store, k) = {}

C9_Witness ==
    \E u \in Users, k \in Keys :
        /\ Exists(k) /\ ~Denied(Record(k), u)
        /\ Cardinality(SnapshotsIn(TheStore, k)) >= 2
        /\ DeleteOutcome(u, k).status = "OK"
        /\ DeleteOutcome(u, k).store = Store({}, EmptyBag)

\* C10: when a call of CreateDashboard, UpdateDashboard or RevertVersion
\* raises, or the request fails after the calls, the compensations leave the
\* store as it was before the request.
C10_FailureRestoresStore ==
    /\ \A u \in Users, k \in Keys, c \in BodyChoices, f \in FailPoints \ {0} :
            LET plan == update(TheStore, u, Request(k[1], k[2], BodyOf(c)))
            IN  (plan.status = "RUN" /\ CanFailAt(plan, f)) =>
                    Serve(TheStore, plan, f) = Outcome("StoreError", TheStore)
    /\ \A u \in Users, k \in Keys, v \in VersionNumbers, f \in FailPoints \ {0} :
            LET plan == revert_version(TheStore, u, VersionRequest(k[1], k[2], v))
            IN  (plan.status = "RUN" /\ CanFailAt(plan, f)) =>
                    Serve(TheStore, plan, f) = Outcome("StoreError", TheStore)
    /\ \A u \in Owners, dom \in Domains, w \in Viewers, c \in BodyChoices,
          f \in FailPoints \ {0} :
            Unissued(dom) # {} =>
                LET plan == create(CreateRequest(NextId(dom), dom, u, w, BodyOf(c)))
                IN  CanFailAt(plan, f) =>
                        Serve(TheStore, plan, f) = Outcome("StoreError", TheStore)

\* a version-worthy update whose three calls completed, changed the record
\* and the snapshots, and is undone when the request fails afterwards; and
\* the same update failing right after increase_version
C10_Witness ==
    \E u \in Users, k \in Keys, c \in BodyChoices :
        LET plan == update(TheStore, u, Request(k[1], k[2], BodyOf(c)))
            done == Completed(Ctx(TheStore, plan.vo, <<>>), plan.calls, 3)
            increased == Completed(Ctx(TheStore, plan.vo, <<>>), plan.calls, 1)
        IN  /\ plan.status = "RUN"
            /\ Len(plan.calls) = 3
            /\ Record(k).version > 0
            /\ Has(BodyOf(c), "settings")
            /\ RecordIn(increased.store, k).version = Record(k).version + 1
            /\ Len(done.stack) = 3
            /\ done.store.versions # versions
            /\ Content(RecordIn(done.store, k)) # Content(Record(k))
            /\ RecordIn(done.store, k).settings # Record(k).settings
            /\ Serve(TheStore, plan, 2).store = TheStore
            /\ Serve(TheStore, plan, 4).store = TheStore

-----------------------------------------------------------------------------
(* CreateDashboard *)

CreateOutcome(u, dom, w, body) ==
    Serve(TheStore, create(CreateRequest(NextId(dom), dom, u, w, body)), 0)

\* C13: CreateDashboard creates exactly one snapshot, at the version the
\* fresh record reports, when layouts, variables or variables_schema is in
\* the request, and none otherwise; the create does not raise the version.
C13_CreateTakesFirstSnapshot ==
    \A u \in Owners, dom \in Domains, w \in Viewers, c \in BodyChoices :
        Unissued(dom) # {} =>
            LET out == CreateOutcome(u, dom, w, BodyOf(c))
                k == <<NextId(dom), dom>>
                new == RecordIn(out.store, k)
            IN  /\ out.status = "OK"
                /\ get_domain_dashboard(out.store, k[1], k[2]) # {}
                /\ new.version = InitialVersion
                /\ IF version_keys \cap DOMAIN BodyOf(c) # {}
                   THEN \E v \in SnapshotsIn(out.store, k) :
                            /\ v.version = new.version
                            /\ Content(v) = Content(new)
                            /\ out.store.versions = versions (+) SetToBag({v})
                   ELSE out.store.versions = versions

\* a create whose only version key is an empty layouts list takes the
\* snapshot; a create with settings alone takes none
C13_Witness ==
    \E u \in Owners, dom \in Domains, w \in Viewers :
        /\ Unissued(dom) # {}
        /\ LET out == CreateOutcome(u, dom, w,
                          Body(<<TRUE, <<>>>>, <<FALSE, {}>>, <<FALSE, {}>>, <<FALSE, {}>>))
           IN  /\ out.status = "OK"
               /\ \E v \in SnapshotsIn(out.store, <<NextId(dom), dom>>) :
                      /\ v.version = InitialVersion
                      /\ out.store.versions = SetToBag({v})
        /\ LET out == CreateOutcome(u, dom, w,
                          Body(<<FALSE, <<>>>>, <<FALSE, {}>>, <<FALSE, {}>>,
                               <<TRUE, {<<"a", 1>>}>>))
           IN  /\ out.status = "OK"
               /\ out.store.versions = EmptyBag
               /\ out.store.dashboards # {}

-----------------------------------------------------------------------------
(* The order of the store calls *)

StepNames(calls) == [i \in 1 .. Len(calls) |-> calls[i].call]

VersionWorthyOrder ==
    <<"increase_version", "create_version", "update_domain_dashboard_by_vo">>

\* the calls of a version-worthy plan take effect in order: the version is
\* raised by one, the snapshot is taken at the raised version, the record is
\* patched last
InOrder(plan, k) ==
    LET one == Completed(Ctx(TheStore, plan.vo, <<>>), plan.calls, 1).store
        two == Completed(Ctx(TheStore, plan.vo, <<>>), plan.calls, 2).store
    IN  /\ StepNames(plan.calls) = VersionWorthyOrder
        /\ RecordIn(one, k) = [Record(k) EXCEPT !.version = @ + 1]
        /\ one.versions = versions
        /\ two.dashboards = one.dashboards
        /\ \E v \in SnapshotsIn(two, k) :
                /\ v.version = Record(k).version + 1
                /\ two.versions = versions (+) SetToBag({v})

\* C16: a version-worthy update (one that changes a version-bearing field)
\* and every revert call increase_version once, then create the snapshot,
\* then patch the record; an update that is not version-worthy never calls
\* increase_version.
C16_IncreaseThenSnapshotThenPatch ==
    /\ \A u \in Users, k \in Keys, c \in BodyChoices :
            LET plan == update(TheStore, u, Request(k[1], k[2], BodyOf(c)))
            IN  plan.status = "RUN" =>
                    IF Changes(BodyOf(c), Record(k)) THEN InOrder(plan, k)
                    ELSE StepNames(plan.calls) = <<"update_domain_dashboard_by_vo">>
    /\ \A u \in Users, k \in Keys, v \in VersionNumbers :
            LET plan == revert_version(TheStore, u, VersionRequest(k[1], k[2], v))
            IN  plan.status = "RUN" => InOrder(plan, k)

\* the same, for the updates the service itself takes as version-worthy
C16_OrderWhenDetected ==
    /\ \A u \in Users, k \in Keys, c \in BodyChoices :
            LET plan == update(TheStore, u, Request(k[1], k[2], BodyOf(c)))
            IN  plan.status = "RUN" =>
                    IF _has_version_key_in_params(Record(k), BodyOf(c), version_keys)
                    THEN InOrder(plan, k)
                    ELSE StepNames(plan.calls) = <<"update_domain_dashboard_by_vo">>
    /\ \A u \in Users, k \in Keys, v \in VersionNumbers :
            LET plan == revert_version(TheStore, u, VersionRequest(k[1], k[2], v))
            IN  plan.status = "RUN" => InOrder(plan, k)

-----------------------------------------------------------------------------
(* Errors *)

HandlerErrors == {"NotFound", "PermissionDenied", "LatestVersionError"}

Unchanged(out) == out.status \in HandlerErrors => out.store = TheStore

\* C17: an UpdateDashboard, DeleteDashboard, DeleteVersion or RevertVersion
\* that ends with NotFound, PermissionDenied or LatestVersionError leaves the
\* records and the snapshots exactly as they were.
C17_ErrorsLeaveStoreUnchanged ==
    \A u \in Users, k \in Keys :
        /\ \A c \in BodyChoices : Unchanged(UpdateOutcome(u, k, BodyOf(c), 0))
        /\ Unchanged(DeleteOutcome(u, k))
        /\ \A v \in VersionNumbers :
              /\ Unchanged(DeleteVersionOutcome(u, k, v))
              /\ Unchanged(RevertOutcome(u, k, v, 0))

\* a PRIVATE dashboard with snapshots: the other user is denied, the owner is
\* refused the deletion of the latest version, and a version without a
\* snapshot is not found
C17_Witness ==
    \E k \in Keys, v \in VersionNumbers :
        /\ PrivateOfOther(k, "u2")
        /\ Cardinality(SnapshotsIn(TheStore, k)) >= 2
        /\ get_version(TheStore, k[1], Record(k).version, k[2]) # {}
        /\ DeleteVersionOutcome("u1", k, Record(k).version).status = "LatestVersionError"
        /\ DeleteOutcome("u2", k).status = "PermissionDenied"
        /\ UpdateOutcome("u2", k, NoBody, 0).status = "PermissionDenied"
        /\ get_version(TheStore, k[1], v, k[2]) = {}
        /\ RevertOutcome("u1", k, v, 0).status = "NotFound"
        /\ DeleteVersionOutcome("u1", k, v).status = "NotFound"

-----------------------------------------------------------------------------
(* The latest snapshot *)

\* C19: when a snapshot exists at a record's current version, its layouts,
\* variables and variables_schema are the record's.
C19_LatestSnapshotIsRecordContent ==
    \A d \in dashboards :
        \A v \in get_version(TheStore, d.dashboard_id, d.version, d.domain_id) :
            Content(v) = Content(d)

-----------------------------------------------------------------------------
(* Settings merge *)

\* C11: an update whose patch includes settings persists the shallow merge
\* of the record's settings with the incoming mapping: every incoming key has
\* the incoming value, every other existing key keeps its value, nothing else
\* is there, and empty existing settings give exactly the incoming mapping;
\* whether or not the update is version-worthy.
C11_SettingsAreMerged ==
    \A u \in Users, k \in Keys, cl \in Choices("layouts"), m \in SettingsDicts :
        (Exists(k) /\ ~Denied(Record(k), u)) =>
            LET out == UpdateOutcome(u, k, SettingsBody(cl, <<TRUE, m>>), 0)
                old == Record(k).settings
                new == RecordIn(out.store, k).settings
            IN  /\ out.status = "OK"
                /\ m \subseteq new
                /\ \A p \in old : (\A q \in m : q[1] # p[1]) => p \in new
                /\ new \subseteq m \cup old
                /\ \A p \in new, q \in new : p[1] = q[1] => p = q
                /\ old = {} => new = m

\* settings {a: 1, b: 1} merged with {b: 2} give {a: 1, b: 2}, in an update
\* that changes layouts and raises the version and in one that does not
C11_Witness ==
    \E k \in Keys :
        /\ Exists(k)
        /\ Record(k).settings = {<<"a", 1>>, <<"b", 1>>}
        /\ Record(k).layouts = <<>>
        /\ LET out == UpdateOutcome("u1", k,
                          SettingsBody(<<TRUE, <<"w1">>>>, <<TRUE, {<<"b", 2>>}>>), 0)
           IN  /\ out.status = "OK"
               /\ RecordIn(out.store, k).version = Record(k).version + 1
               /\ RecordIn(out.store, k).settings = {<<"a", 1>>, <<"b", 2>>}
        /\ LET out == UpdateOutcome("u1", k,
                          SettingsBody(<<FALSE, <<>>>>, <<TRUE, {<<"b", 2>>}>>), 0)
           IN  /\ out.status = "OK"
               /\ RecordIn(out.store, k).version = Record(k).version
               /\ RecordIn(out.store, k).settings = {<<"a", 1>>, <<"b", 2>>}

-----------------------------------------------------------------------------
(* Query scoping *)

\* the query of the caller as the decorators of list and of stat leave it
CallerQuery(keys, params) ==
    Query(append_query_filter(keys, params, params.query.filter), params.query.filter_or)

Own(docs, u) == {d \in docs : d.user_id \in {u, None}}

\* C12: whatever filter the caller sends, the records ListDashboards returns
\* and the records StatDashboards counts are those the caller's query selects
\* whose user_id is the caller's or null.
C12_ListAndStatAreOwnerScoped ==
    \A u \in Users, q \in ListRequests :
        /\ \A d \in list(TheStore, u, q)[1] : d.user_id \in {u, None}
        /\ list(TheStore, u, q)[1] =
              Own(Selected(TheStore,
                      CallerQuery(<<"dashboard_id", "name", "viewers", "user_id", "domain_id">>,
                                  q)), u)
        /\ list(TheStore, u, q)[2] = Cardinality(list(TheStore, u, q)[1])
        /\ stat(TheStore, u, q) =
              Cardinality(Own(Selected(TheStore, CallerQuery(<<"domain_id">>, q)), u))

\* a record of u1 that the query of u2 selects (by user_id, by filter and by
\* filter_or) and that neither list nor stat shows to u2, and both show to u1
C12_Witness ==
    \E d \in dashboards, q \in ListRequests :
        /\ d.user_id = "u1"
        /\ Has(q, "user_id") /\ q.user_id = "u1"
        /\ q.query.filter # <<>> /\ q.query.filter_or # <<>>
        /\ d \in Selected(TheStore,
                    CallerQuery(<<"dashboard_id", "name", "viewers", "user_id", "domain_id">>,
                                q))
        /\ list(TheStore, "u2", q) = <<{}, 0>>
        /\ stat(TheStore, "u2", q) = 0
        /\ list(TheStore, "u1", q) = <<{d}, 1>>
        /\ stat(TheStore, "u1", q) = 1

-----------------------------------------------------------------------------
(* The frame of DeleteDashboard *)

\* the snapshots of a dashboard, with their multiplicities
SnapshotBag(store, k) == [v \in SnapshotsIn(store, k) |-> store.versions[v]]

-----------------------------------------------------------------------------
(* Concurrent requests on one dashboard *)

SameKey(x, y) ==
    x.dashboard_id = y.dashboard_id /\ x.domain_id = y.domain_id /\ x.version = y.version

\* C14: at no time do two snapshots share (dashboard_id, version, domain_id),
\* whatever the interleaving of updates, reverts and version deletions.
C14_VersionNumbersAreNeverReused ==
    \A v \in BagToSet(versions) :
        /\ versions[v] = 1
        /\ \A x \in BagToSet(versions) : SameKey(x, v) => x = v

Quiescent == \A w \in Workers : Free(w)

\* C15: once every request has been answered, no snapshot that a successful
\* DeleteVersion removed is the snapshot of the record's current version.
C15_LatestSnapshotIsNotDeleted ==
    Quiescent =>
        \A w \in Workers :
            LET job == inflight[w]
            IN  (job.mode = "done" /\ job.op = "delete_version" /\ job.status = "OK") =>
                    \A d \in get_domain_dashboard(TheStore, job.req.dashboard_id,
                                                  job.req.domain_id) :
                        d.version = job.req.version =>
                            get_version(TheStore, d.dashboard_id, d.version, d.domain_id)
                                # {}

\* worker w is serving an update or a revert, and the one request begun since
\* then, on the same dashboard, has been answered with success by worker o
CommittedBetween(w, o) ==
    /\ w # o
    /\ inflight[w].mode = "run"
    /\ inflight[w].op \in {"update", "revert_version"}
    /\ inflight[o].mode = "done"
    /\ inflight[o].status = "OK"
    /\ inflight[o].began = inflight[w].began + 1
    /\ nops = inflight[w].began + 2
    /\ inflight[o].req.dashboard_id = inflight[w].req.dashboard_id
    /\ inflight[o].req.domain_id = inflight[w].req.domain_id

\* the store after the compensations of a worker whose request fails now
RolledBack(w) == execute_rollback(TheStore, FailingStack(inflight[w]))

\* the store the request of worker o alone makes of the store worker w found
Alone(w, o) ==
    Serve(inflight[w].base,
          HandlerPlan(inflight[w].base, inflight[o].op, inflight[o].user_id,
                      inflight[o].req),
          0).store

\* C20 as stated: when a worker's update or revert fails after another
\* worker's request on the same dashboard succeeded in between, the store
\* after the rollback is the one the successful request alone produces.
C20_CommittedChangeSurvivesRollback ==
    \A w \in Workers, o \in Workers :
        CommittedBetween(w, o) => RolledBack(w) = Alone(w, o)

UndosOf(stack, kind) == {i \in 1 .. Len(stack) : stack[i].undo = kind}

\* C20 amended: the compensations of a failing update or revert act on the
\* store as it is when they run.  The restore of the prior state sets name,
\* layouts, variables, settings and variables_schema to the values the
\* failing worker held before its patch, whatever another worker has
\* committed since; the version is the current version minus one when the
\* worker had increased it; only the worker's own snapshot is deleted.
C20_RollbackRestoresCapturedState ==
    \A w \in Workers :
        (inflight[w].mode = "run" /\ inflight[w].op \in {"update", "revert_version"}) =>
            LET stack == FailingStack(inflight[w])
                k == <<inflight[w].req.dashboard_id, inflight[w].req.domain_id>>
                after == RolledBack(w)
                new == RecordIn(after, k)
            IN  /\ Cardinality(UndosOf(stack, "update")) <= 1
                /\ \A i \in UndosOf(stack, "update") :
                      \A f \in updatable_fields : new[f] = stack[i].doc[f]
                /\ UndosOf(stack, "update") = {} =>
                      \A f \in updatable_fields : new[f] = Record(k)[f]
                /\ new.version =
                      Record(k).version - Cardinality(UndosOf(stack, "decrement_version"))
                /\ \A i \in UndosOf(stack, "delete_version") :
                      after.versions = RemoveOne(versions, stack[i].doc)
                /\ UndosOf(stack, "delete_version") = {} => after.versions = versions

\* a worker has patched the settings; another worker's update of layouts has
\* since been committed with its snapshot; the rollback of the first keeps
\* that snapshot and the raised version and sets the layouts back
C20_Witness ==
    \E w \in Workers, o \in Workers :
        /\ CommittedBetween(w, o)
        /\ inflight[w].done = Len(inflight[w].calls)
        /\ Len(inflight[w].calls) = 1
        /\ Has(inflight[o].req, "layouts")
        /\ LET k == <<inflight[w].req.dashboard_id, inflight[w].req.domain_id>>
               new == RecordIn(RolledBack(w), k)
           IN  /\ Record(k).layouts = inflight[o].req.layouts
               /\ new.layouts # Record(k).layouts
               /\ new.version = Record(k).version
               /\ RolledBack(w).versions = versions
               /\ get_version(TheStore, k[1], Record(k).version, k[2]) # {}
               /\ RolledBack(w) # Alone(w, o)

-----------------------------------------------------------------------------
(* ListDashboards and the access gate *)

\* C21: every record ListDashboards returns to a caller is one GetDashboard
\* does not refuse to that caller with PermissionDenied.
C21_ListedRecordsPassTheGate ==
    \A u \in Users, q \in ListRequests :
        \A d \in list(TheStore, u, q)[1] :
            /\ ~Denied(d, u)
            /\ get(TheStore, u, [dashboard_id |-> d.dashboard_id, domain_id |-> d.domain_id])
                    = Response("OK", {d})

\* a PRIVATE record of u1: listed to u1, who may get it; refused to u2 by the
\* gate and not listed to u2, whose list request has no filter of its own
C21_Witness ==
    \E d \in dashboards, q \in ListRequests :
        /\ d.viewers = "PRIVATE" /\ d.user_id = "u1"
        /\ ~Has(q, "user_id") /\ q.query.filter = <<>> /\ q.query.filter_or = <<>>
        /\ list(TheStore, "u1", q) = <<{d}, 1>>
        /\ get(TheStore, "u1", [dashboard_id |-> d.dashboard_id, domain_id |-> d.domain_id])
                = Response("OK", {d})
        /\ list(TheStore, "u2", q) = <<{}, 0>>
        /\ get(TheStore, "u2", [dashboard_id |-> d.dashboard_id, domain_id |-> d.domain_id])
                .status = "PermissionDenied"

====
